---- MODULE Spec2Model ----
(***************************************************************************)
(* Model of the NEWS2 scoring engine of SimCerner: the threshold tables,   *)
(* calculateSubScore, getClinicalRisk, getEscalationLevel, calculateNEWS2, *)
(* the trend of useNewsScore, and the alert engine with its ledger.        *)
(*                                                                         *)
(* Representation.  An optional value (a field that may be undefined, a    *)
(* defaulted argument, a result not yet returned) is a sequence of length  *)
(* at most one: <<>> is undefined, <<x>> is x.  Temperatures are integers  *)
(* in hundredths of a degree Celsius (35.1 is 3510), so that values        *)
(* between the one-decimal band edges exist.  Infinity is an integer       *)
(* larger than every value used.                                           *)
(***************************************************************************)
EXTENDS Integers, Sequences, FiniteSets, TLC

VARIABLES
    parameter,      \* calculateSubScore: argument `parameter`
    value,          \* calculateSubScore: argument `value`
    subScore,       \* calculateSubScore: returned score, <<>> before the call
    totalScore,     \* getClinicalRisk: argument `totalScore`
    hasRedScore,    \* getClinicalRisk: argument `hasRedScore`, <<>> if omitted
    clinicalRisk,   \* getClinicalRisk: returned risk, <<>> before the call
    vital,          \* calculateNEWS2: argument `vital`
    result,         \* calculateNEWS2: returned NEWS2Result, <<>> before the call
    lookups,        \* calculateNEWS2: table keys passed to calculateSubScore
    vitals,         \* useNewsScore: argument `vitals`, newest first
    newsScore,      \* useNewsScore: returned UseNewsScoreResult, <<>> before the call
    alerts,         \* alertEngine: the module-level alert collection
    alertIdCounter, \* alertEngine: the module-level id counter
    clock,          \* the system clock read by new Date()
    lastOp,         \* alertEngine: the last exported function called, with its arguments
    returned,       \* alertEngine: the value returned by that call
    issued          \* alertEngine: the id numbers generated since the module was loaded

vars == <<parameter, value, subScore, totalScore, hasRedScore, clinicalRisk,
          vital, result, lookups, vitals, newsScore,
          alerts, alertIdCounter, clock, lastOp, returned, issued>>

scoreVars == <<parameter, value, subScore>>
riskVars == <<totalScore, hasRedScore, clinicalRisk>>
newsVars == <<vital, result, lookups>>
trendVars == <<vitals, newsScore>>
alertVars == <<alerts, alertIdCounter, clock, lastOp, returned, issued>>
calculatorVars == <<scoreVars, riskVars, newsVars, trendVars>>

----------------------------------------------------------------------------
(* Bounds of the model *)

NegativeValues == 2
ValueMax == 225
TempMin == 3480
TempMax == 3930
MaxTotal == 60
MaxHistory == 3
MaxAlerts == 2
MaxClock == 1

----------------------------------------------------------------------------
(* Threshold tables *)

Infinity == 1000000

Band(lo, hi, s) == [min |-> lo, max |-> hi, score |-> s]

NEWS2_THRESHOLDS ==
    [ respiratoryRate |->
        << Band(-Infinity, 8, 3), Band(9, 11, 1), Band(12, 20, 0),
           Band(21, 24, 2), Band(25, Infinity, 3) >>,
      spo2Scale1 |->
        << Band(-Infinity, 91, 3), Band(92, 93, 2), Band(94, 95, 1),
           Band(96, Infinity, 0) >>,
      spo2Scale2OnO2 |->
        << Band(-Infinity, 83, 3), Band(84, 85, 2), Band(86, 87, 1),
           Band(88, 92, 0), Band(93, Infinity, 0) >>,
      spo2Scale2OnAir |->
        << Band(-Infinity, 83, 3), Band(84, 85, 2), Band(86, 87, 1),
           Band(88, 92, 0), Band(93, 94, 1), Band(95, 96, 2),
           Band(97, Infinity, 3) >>,
      supplementalO2 |->
        << Band(0, 0, 0), Band(1, 1, 2) >>,
      temperature |->
        << Band(-Infinity, 3500, 3), Band(3510, 3600, 1),
           Band(3610, 3800, 0), Band(3810, 3900, 1),
           Band(3910, Infinity, 2) >>,
      systolicBP |->
        << Band(-Infinity, 90, 3), Band(91, 100, 2), Band(101, 110, 1),
           Band(111, 219, 0), Band(220, Infinity, 3) >>,
      heartRate |->
        << Band(-Infinity, 40, 3), Band(41, 50, 1), Band(51, 90, 0),
           Band(91, 110, 1), Band(111, 130, 2), Band(131, Infinity, 3) >>,
      consciousness |->
        << Band(0, 0, 0), Band(1, 3, 3) >> ]

\* Variant: a five-point scale on which Unresponsive is 4.
AVPU_NUMERIC_MAP_fivePoint == [A |-> 0, C |-> 1, V |-> 2, P |-> 3, U |-> 4]

AVPU_NUMERIC_MAP == [A |-> 0, C |-> 1, V |-> 2, P |-> 3, U |-> 3]

CLINICAL_RISK_THRESHOLDS == [high |-> 7, medium |-> 5, lowMediumSingleParam |-> 3]

----------------------------------------------------------------------------
(* Pure functions *)

SetMin(S) == CHOOSE x \in S : \A y \in S : x <= y

\* Array.prototype.find with the band predicate: the first band, in table
\* order, whose inclusive range holds v; <<>> when there is none.
find_strictMin(bands, v) ==
    LET hits == { i \in 1..Len(bands) : v > bands[i].min /\ v <= bands[i].max }
    IN  IF hits = {} THEN <<>> ELSE << bands[SetMin(hits)] >>

find(bands, v) ==
    LET hits == { i \in 1..Len(bands) : v >= bands[i].min /\ v <= bands[i].max }
    IN  IF hits = {} THEN <<>> ELSE << bands[SetMin(hits)] >>

\* Variant: a key without a table is scored as a red parameter.
calculateSubScore_unknownIsRed(p, v) ==
    IF p \notin DOMAIN NEWS2_THRESHOLDS
    THEN 3
    ELSE LET band == find(NEWS2_THRESHOLDS[p], v)
         IN  IF band = <<>> THEN 0 ELSE band[1].score

calculateSubScore(p, v) ==
    IF p \notin DOMAIN NEWS2_THRESHOLDS
    THEN 0
    ELSE LET band == find(NEWS2_THRESHOLDS[p], v)
         IN  IF band = <<>> THEN 0 ELSE band[1].score

\* Variant: a red score alone gives Medium below the high threshold.
getClinicalRisk_redIsMedium(total, red) ==
    LET redFlag == IF red = <<>> THEN FALSE ELSE red[1]
    IN  IF total >= CLINICAL_RISK_THRESHOLDS.high THEN "High"
        ELSE IF total >= CLINICAL_RISK_THRESHOLDS.medium \/ redFlag THEN "Medium"
        ELSE "Low"

\* Variant: the red-score check made before the total-score thresholds.
getClinicalRisk_redFirst(total, red) ==
    LET redFlag == IF red = <<>> THEN FALSE ELSE red[1]
    IN  IF redFlag THEN "Low-Medium"
        ELSE IF total >= CLINICAL_RISK_THRESHOLDS.high THEN "High"
        ELSE IF total >= CLINICAL_RISK_THRESHOLDS.medium THEN "Medium"
        ELSE "Low"

\* red is <<>> when the argument is omitted: the default is false.
getClinicalRisk(total, red) ==
    LET redFlag == IF red = <<>> THEN FALSE ELSE red[1]
    IN  IF total >= CLINICAL_RISK_THRESHOLDS.high THEN "High"
        ELSE IF total >= CLINICAL_RISK_THRESHOLDS.medium THEN "Medium"
        ELSE IF redFlag THEN "Low-Medium"
        ELSE "Low"

\* Variant: Medium falls through to the level of Low-Medium.
getEscalationLevel_mediumAsOne(risk) ==
    CASE risk = "Low" -> 0
      [] risk = "Low-Medium" -> 1
      [] risk = "Medium" -> 1
      [] risk = "High" -> 3
      [] OTHER -> 0

getEscalationLevel(risk) ==
    CASE risk = "Low" -> 0
      [] risk = "Low-Medium" -> 1
      [] risk = "Medium" -> 2
      [] risk = "High" -> 3
      [] OTHER -> 0

----------------------------------------------------------------------------
(* calculateNEWS2 *)

\* Variant: presence of the flag in place of its truthiness.
truthy_present(opt) == opt # <<>>

\* Truthiness of the optional boolean vital.supplementalO2.
truthy(opt) == opt # <<>> /\ opt[1]

\* Variant: a level without an entry taken as the most severe one.
avpuNumeric_unknownIsThree(a) == IF a \in DOMAIN AVPU_NUMERIC_MAP THEN AVPU_NUMERIC_MAP[a] ELSE 3

\* AVPU_NUMERIC_MAP[vital.avpu] ?? 0
avpuNumeric(a) == IF a \in DOMAIN AVPU_NUMERIC_MAP THEN AVPU_NUMERIC_MAP[a] ELSE 0

Call(k, label, arg, shown) == [key |-> k, parameter |-> label, arg |-> arg, value |-> shown]

\* Variant: SpO2 looked up on Scale 2 for a patient on supplemental oxygen.
subScoreCalls_scale2(v) ==
    (IF v.rr # <<>>
        THEN << Call("respiratoryRate", "Respiratory Rate", v.rr[1], v.rr[1]) >>
        ELSE <<>>)
    \o (IF v.spo2 # <<>>
        THEN << Call(IF truthy(v.supplementalO2) THEN "spo2Scale2OnO2" ELSE "spo2Scale1",
                     "SpO2", v.spo2[1], v.spo2[1]) >>
        ELSE <<>>)
    \o << Call("supplementalO2", "Supplemental O2",
               IF truthy(v.supplementalO2) THEN 1 ELSE 0,
               IF truthy(v.supplementalO2) THEN "Yes" ELSE "No") >>
    \o (IF v.temp # <<>>
        THEN << Call("temperature", "Temperature", v.temp[1], v.temp[1]) >>
        ELSE <<>>)
    \o (IF v.bp_sys # <<>>
        THEN << Call("systolicBP", "Systolic BP", v.bp_sys[1], v.bp_sys[1]) >>
        ELSE <<>>)
    \o (IF v.hr # <<>>
        THEN << Call("heartRate", "Heart Rate", v.hr[1], v.hr[1]) >>
        ELSE <<>>)
    \o (IF v.avpu # <<>>
        THEN << Call("consciousness", "Consciousness", avpuNumeric(v.avpu[1]), v.avpu[1]) >>
        ELSE <<>>)

\* The calls of calculateSubScore made by calculateNEWS2, in order: the table
\* key and numeric argument of each call, with the label and the value that
\* the pushed sub-score records.
subScoreCalls(v) ==
    (IF v.rr # <<>>
        THEN << Call("respiratoryRate", "Respiratory Rate", v.rr[1], v.rr[1]) >>
        ELSE <<>>)
    \o (IF v.spo2 # <<>>
        THEN << Call("spo2Scale1", "SpO2", v.spo2[1], v.spo2[1]) >>
        ELSE <<>>)
    \o << Call("supplementalO2", "Supplemental O2",
               IF truthy(v.supplementalO2) THEN 1 ELSE 0,
               IF truthy(v.supplementalO2) THEN "Yes" ELSE "No") >>
    \o (IF v.temp # <<>>
        THEN << Call("temperature", "Temperature", v.temp[1], v.temp[1]) >>
        ELSE <<>>)
    \o (IF v.bp_sys # <<>>
        THEN << Call("systolicBP", "Systolic BP", v.bp_sys[1], v.bp_sys[1]) >>
        ELSE <<>>)
    \o (IF v.hr # <<>>
        THEN << Call("heartRate", "Heart Rate", v.hr[1], v.hr[1]) >>
        ELSE <<>>)
    \o (IF v.avpu # <<>>
        THEN << Call("consciousness", "Consciousness", avpuNumeric(v.avpu[1]), v.avpu[1]) >>
        ELSE <<>>)

\* Variant: reduce without its initial value 0, so that the first element
\* is taken as the accumulator and its score is never added.
RECURSIVE sumScores_noInitial(_)
sumScores_noInitial(subs) ==
    IF Len(subs) <= 1 THEN 0
    ELSE sumScores_noInitial(SubSeq(subs, 1, Len(subs) - 1)) + subs[Len(subs)].score

\* subScores.reduce((sum, s) => sum + s.score, 0)
RECURSIVE sumScores(_)
sumScores(subs) ==
    IF subs = <<>> THEN 0
    ELSE sumScores(SubSeq(subs, 1, Len(subs) - 1)) + subs[Len(subs)].score

\* Variant: every in place of some.
someRed_every(subs) == \A i \in 1..Len(subs) : subs[i].score = 3

\* subScores.some((s) => s.score === 3)
someRed(subs) == \E i \in 1..Len(subs) : subs[i].score = 3

calculateNEWS2(v) ==
    LET calls == subScoreCalls(v)
        subs == [ i \in 1..Len(calls) |->
                    [ parameter |-> calls[i].parameter,
                      value |-> calls[i].value,
                      score |-> calculateSubScore(calls[i].key, calls[i].arg) ] ]
        total == sumScores(subs)
        risk == getClinicalRisk(total, << someRed(subs) >>)
    IN  [ totalScore |-> total,
          subScores |-> subs,
          clinicalRisk |-> risk,
          escalationLevel |-> getEscalationLevel(risk) ]

----------------------------------------------------------------------------
(* useNewsScore *)

\* Variant: the list taken as oldest first, so that the delta is reversed.
useNewsScore_reversedDelta(vs) ==
    IF Len(vs) = 0
    THEN [ latestScore |-> <<>>, riskLevel |-> <<>>, trend |-> "stable", scoreHistory |-> <<>> ]
    ELSE LET scoreHistory == [ i \in 1..Len(vs) |-> calculateNEWS2(vs[i]) ]
             latestScore == scoreHistory[1]
             delta == IF Len(scoreHistory) >= 2
                      THEN scoreHistory[2].totalScore - scoreHistory[1].totalScore
                      ELSE 0
         IN  [ latestScore |-> << latestScore >>,
               riskLevel |-> << latestScore.clinicalRisk >>,
               trend |-> IF delta > 0 THEN "worsening"
                         ELSE IF delta < 0 THEN "improving" ELSE "stable",
               scoreHistory |-> scoreHistory ]

\* The body of the memoised callback.  latestScore and riskLevel are <<>>
\* for null.  With fewer than two scores the trend keeps its initial value
\* 'stable', which is also the value for a delta of 0.
useNewsScore(vs) ==
    IF Len(vs) = 0
    THEN [ latestScore |-> <<>>, riskLevel |-> <<>>, trend |-> "stable", scoreHistory |-> <<>> ]
    ELSE LET scoreHistory == [ i \in 1..Len(vs) |-> calculateNEWS2(vs[i]) ]
             latestScore == scoreHistory[1]
             delta == IF Len(scoreHistory) >= 2
                      THEN scoreHistory[1].totalScore - scoreHistory[2].totalScore
                      ELSE 0
         IN  [ latestScore |-> << latestScore >>,
               riskLevel |-> << latestScore.clinicalRisk >>,
               trend |-> IF delta > 0 THEN "worsening"
                         ELSE IF delta < 0 THEN "improving" ELSE "stable",
               scoreHistory |-> scoreHistory ]

----------------------------------------------------------------------------
(* alertEngine *)

\* Variant: the critical cutoff of SpO2 at 90.
VITAL_ALERT_THRESHOLDS_spo2At90 ==
    << [ key |-> "hr", warningLow |-> <<50>>, warningHigh |-> <<110>>,
         criticalLow |-> <<40>>, criticalHigh |-> <<130>>, label |-> "Heart Rate" ],
       [ key |-> "rr", warningLow |-> <<11>>, warningHigh |-> <<21>>,
         criticalLow |-> <<8>>, criticalHigh |-> <<25>>, label |-> "Respiratory Rate" ],
       [ key |-> "bp_sys", warningLow |-> <<100>>, warningHigh |-> <<180>>,
         criticalLow |-> <<90>>, criticalHigh |-> <<220>>, label |-> "Systolic BP" ],
       [ key |-> "spo2", warningLow |-> <<94>>, warningHigh |-> <<>>,
         criticalLow |-> <<90>>, criticalHigh |-> <<>>, label |-> "SpO2" ],
       [ key |-> "temp", warningLow |-> <<3550>>, warningHigh |-> <<3850>>,
         criticalLow |-> <<3500>>, criticalHigh |-> <<3910>>, label |-> "Temperature" ] >>

\* Object.entries(VITAL_ALERT_THRESHOLDS), in insertion order.  A cutoff
\* that the entry does not define is <<>>.
VITAL_ALERT_THRESHOLDS ==
    << [ key |-> "hr", warningLow |-> <<50>>, warningHigh |-> <<110>>,
         criticalLow |-> <<40>>, criticalHigh |-> <<130>>, label |-> "Heart Rate" ],
       [ key |-> "rr", warningLow |-> <<11>>, warningHigh |-> <<21>>,
         criticalLow |-> <<8>>, criticalHigh |-> <<25>>, label |-> "Respiratory Rate" ],
       [ key |-> "bp_sys", warningLow |-> <<100>>, warningHigh |-> <<180>>,
         criticalLow |-> <<90>>, criticalHigh |-> <<220>>, label |-> "Systolic BP" ],
       [ key |-> "spo2", warningLow |-> <<94>>, warningHigh |-> <<>>,
         criticalLow |-> <<91>>, criticalHigh |-> <<>>, label |-> "SpO2" ],
       [ key |-> "temp", warningLow |-> <<3550>>, warningHigh |-> <<3850>>,
         criticalLow |-> <<3500>>, criticalHigh |-> <<3910>>, label |-> "Temperature" ] >>

\* String(n) for n >= 0, as the sequence of its decimal digits.
RECURSIVE decimalDigits(_)
decimalDigits(n) ==
    IF n < 10 THEN << n >> ELSE Append(decimalDigits(n \div 10), n % 10)

\* String.prototype.padStart with a one-character filler.
RECURSIVE padStart(_, _, _)
padStart(str, len, ch) ==
    IF Len(str) >= len THEN str ELSE padStart(<< ch >> \o str, len, ch)

\* `ALT-${String(n).padStart(4, '0')}`
alertIdOf(n) == [ prefix |-> "ALT-", digits |-> padStart(decimalDigits(n), 4, 0) ]

\* The number that an alert id spells.
RECURSIVE digitsValue(_)
digitsValue(ds) ==
    IF ds = <<>> THEN 0
    ELSE 10 * digitsValue(SubSeq(ds, 1, Len(ds) - 1)) + ds[Len(ds)]

idNumber(id) == digitsValue(id.digits)

\* generateAlertId: the counter after the call and the id returned.
generateAlertId(counter) ==
    [ counter |-> counter + 1, id |-> alertIdOf(counter + 1) ]

\* new Date().toISOString(): a fixed-width string of digits for the clock
\* reading (two digits stand for the twenty-four characters).
toISOString(t) == << t \div 10, t % 10 >>

\* a.localeCompare(b) on two such strings: -1, 0 or 1, by the first
\* position where they differ.
RECURSIVE localeCompare(_, _)
localeCompare(a, b) ==
    IF a = <<>> /\ b = <<>> THEN 0
    ELSE IF a = <<>> THEN -1
    ELSE IF b = <<>> THEN 1
    ELSE IF Head(a) < Head(b) THEN -1
    ELSE IF Head(a) > Head(b) THEN 1
    ELSE localeCompare(Tail(a), Tail(b))

\* Variant: the warning check made even when the critical check fired.
vitalAlertFor_bothChecks(th, v) ==
    IF v[th.key] = <<>> THEN <<>>
    ELSE LET x == v[th.key][1]
         IN  (IF \/ (th.criticalLow # <<>> /\ x <= th.criticalLow[1])
                 \/ (th.criticalHigh # <<>> /\ x >= th.criticalHigh[1])
              THEN << [ type |-> "vital_out_of_range", severity |-> "critical",
                        message |-> [ text |-> "CRITICAL", label |-> th.label, value |-> x,
                                      note |-> "outside safe range" ] ] >>
              ELSE <<>>)
             \o (IF \/ (th.warningLow # <<>> /\ x <= th.warningLow[1])
                    \/ (th.warningHigh # <<>> /\ x >= th.warningHigh[1])
                 THEN << [ type |-> "vital_out_of_range", severity |-> "warning",
                           message |-> [ text |-> "WARNING", label |-> th.label, value |-> x,
                                         note |-> "approaching limits" ] ] >>
                 ELSE <<>>)

\* Variant: an absent field read as the value 0.
vitalAlertFor_absentIsZero(th, v) ==
    LET x == IF v[th.key] = <<>> THEN 0 ELSE v[th.key][1]
    IN  IF \/ (th.criticalLow # <<>> /\ x <= th.criticalLow[1])
           \/ (th.criticalHigh # <<>> /\ x >= th.criticalHigh[1])
        THEN << [ type |-> "vital_out_of_range", severity |-> "critical",
                  message |-> [ text |-> "CRITICAL", label |-> th.label, value |-> x,
                                note |-> "outside safe range" ] ] >>
        ELSE IF \/ (th.warningLow # <<>> /\ x <= th.warningLow[1])
                \/ (th.warningHigh # <<>> /\ x >= th.warningHigh[1])
        THEN << [ type |-> "vital_out_of_range", severity |-> "warning",
                  message |-> [ text |-> "WARNING", label |-> th.label, value |-> x,
                                note |-> "approaching limits" ] ] >>
        ELSE <<>>

\* One iteration of the loop of checkVitals: the alert pushed for the
\* entry th, before its id is generated, or <<>> when the iteration pushes
\* nothing.
vitalAlertFor(th, v) ==
    IF v[th.key] = <<>> THEN <<>>
    ELSE LET x == v[th.key][1]
         IN  IF \/ (th.criticalLow # <<>> /\ x <= th.criticalLow[1])
                \/ (th.criticalHigh # <<>> /\ x >= th.criticalHigh[1])
             THEN << [ type |-> "vital_out_of_range", severity |-> "critical",
                       message |-> [ text |-> "CRITICAL", label |-> th.label, value |-> x,
                                     note |-> "outside safe range" ] ] >>
             ELSE IF \/ (th.warningLow # <<>> /\ x <= th.warningLow[1])
                     \/ (th.warningHigh # <<>> /\ x >= th.warningHigh[1])
             THEN << [ type |-> "vital_out_of_range", severity |-> "warning",
                       message |-> [ text |-> "WARNING", label |-> th.label, value |-> x,
                                     note |-> "approaching limits" ] ] >>
             ELSE <<>>

\* The pushes of the whole loop, in the order of the entries.
RECURSIVE vitalAlertsFrom(_, _)
vitalAlertsFrom(k, v) ==
    IF k > Len(VITAL_ALERT_THRESHOLDS) THEN <<>>
    ELSE vitalAlertFor(VITAL_ALERT_THRESHOLDS[k], v) \o vitalAlertsFrom(k + 1, v)

\* Variant: Medium raised as an info alert.
riskMap_mediumInfo ==
    ("Low" :> <<>>)
    @@ ("Low-Medium" :> << [ severity |-> "info", type |-> "news_score_elevated" ] >>)
    @@ ("Medium" :> << [ severity |-> "info", type |-> "news_score_elevated" ] >>)
    @@ ("High" :> << [ severity |-> "critical", type |-> "news_score_critical" ] >>)

\* Variant: Low raised as an info alert.
riskMap_lowInfo ==
    ("Low" :> << [ severity |-> "info", type |-> "news_score_elevated" ] >>)
    @@ ("Low-Medium" :> << [ severity |-> "info", type |-> "news_score_elevated" ] >>)
    @@ ("Medium" :> << [ severity |-> "warning", type |-> "news_score_elevated" ] >>)
    @@ ("High" :> << [ severity |-> "critical", type |-> "news_score_critical" ] >>)

\* The riskMap of checkNEWSScore; <<>> is null.
riskMap ==
    ("Low" :> <<>>)
    @@ ("Low-Medium" :> << [ severity |-> "info", type |-> "news_score_elevated" ] >>)
    @@ ("Medium" :> << [ severity |-> "warning", type |-> "news_score_elevated" ] >>)
    @@ ("High" :> << [ severity |-> "critical", type |-> "news_score_critical" ] >>)

\* Variant: the red-parameter alert pushed for a High result too.
scoreAlertsFor_redAlways(score) ==
    LET config == riskMap[score.clinicalRisk]
        redParams == SelectSeq(score.subScores, LAMBDA sc : sc.score = 3)
    IN  (IF config # <<>>
         THEN << [ type |-> config[1].type, severity |-> config[1].severity,
                   message |-> [ text |-> "NEWS2 Score", totalScore |-> score.totalScore,
                                 clinicalRisk |-> score.clinicalRisk,
                                 escalationLevel |-> score.escalationLevel ] ] >>
         ELSE <<>>)
        \o (IF Len(redParams) > 0
            THEN << [ type |-> "news_score_elevated", severity |-> "warning",
                      message |-> [ text |-> "RED score in",
                                    parameters |-> [ i \in 1..Len(redParams) |-> redParams[i].parameter ],
                                    note |-> "Requires increased monitoring" ] ] >>
            ELSE <<>>)

\* The pushes of checkNEWSScore, before their ids are generated.
scoreAlertsFor(score) ==
    LET config == riskMap[score.clinicalRisk]
        redParams == SelectSeq(score.subScores, LAMBDA sc : sc.score = 3)
    IN  (IF config # <<>>
         THEN << [ type |-> config[1].type, severity |-> config[1].severity,
                   message |-> [ text |-> "NEWS2 Score", totalScore |-> score.totalScore,
                                 clinicalRisk |-> score.clinicalRisk,
                                 escalationLevel |-> score.escalationLevel ] ] >>
         ELSE <<>>)
        \o (IF Len(redParams) > 0 /\ score.clinicalRisk # "High"
            THEN << [ type |-> "news_score_elevated", severity |-> "warning",
                      message |-> [ text |-> "RED score in",
                                    parameters |-> [ i \in 1..Len(redParams) |-> redParams[i].parameter ],
                                    note |-> "Requires increased monitoring" ] ] >>
            ELSE <<>>)

\* Variant: the counter read once per call, not advanced between pushes.
RECURSIVE pushAll_staleCounter(_, _, _, _)
pushAll_staleCounter(drafts, counter, now, mrn) ==
    IF drafts = <<>> THEN [ newAlerts |-> <<>>, counter |-> counter ]
    ELSE LET gen == generateAlertId(counter)
             rest == pushAll_staleCounter(Tail(drafts), counter, now, mrn)
         IN  [ newAlerts |->
                 << [ id |-> gen.id,
                      type |-> Head(drafts).type,
                      severity |-> Head(drafts).severity,
                      message |-> Head(drafts).message,
                      timestamp |-> now,
                      acknowledged |-> FALSE,
                      patientMrn |-> mrn ] >> \o rest.newAlerts,
               counter |-> gen.counter ]

\* The pushes of one call completed to alerts: each takes its id from
\* generateAlertId at the moment it is pushed, in order.  The result is the
\* array newAlerts and the counter after the call.
RECURSIVE pushAll(_, _, _, _)
pushAll(drafts, counter, now, mrn) ==
    IF drafts = <<>> THEN [ newAlerts |-> <<>>, counter |-> counter ]
    ELSE LET gen == generateAlertId(counter)
             rest == pushAll(Tail(drafts), gen.counter, now, mrn)
         IN  [ newAlerts |->
                 << [ id |-> gen.id,
                      type |-> Head(drafts).type,
                      severity |-> Head(drafts).severity,
                      message |-> Head(drafts).message,
                      timestamp |-> now,
                      acknowledged |-> FALSE,
                      patientMrn |-> mrn ] >> \o rest.newAlerts,
               counter |-> rest.counter ]

checkVitals(patientMrn, v, counter, now) ==
    pushAll(vitalAlertsFrom(1, v), counter, now, patientMrn)

checkNEWSScore(score, patientMrn, counter, now) ==
    pushAll(scoreAlertsFor(score), counter, now, patientMrn)

\* Variant: the flag toggled instead of set.
acknowledgeAlert_toggle(ledger, alertId) ==
    [ i \in 1..Len(ledger) |->
        IF ledger[i].id = alertId
        THEN [ ledger[i] EXCEPT !.acknowledged = ~ledger[i].acknowledged ]
        ELSE ledger[i] ]

\* Variant: the comparison of ids inverted.
acknowledgeAlert_inverted(ledger, alertId) ==
    [ i \in 1..Len(ledger) |->
        IF ledger[i].id # alertId THEN [ ledger[i] EXCEPT !.acknowledged = TRUE ]
        ELSE ledger[i] ]

\* Variant: the acknowledged alert taken out of the ledger.
acknowledgeAlert_remove(ledger, alertId) ==
    SelectSeq(ledger, LAMBDA a : a.id # alertId)

\* alerts.map((a) => a.id === alertId ? { ...a, acknowledged: true } : a)
acknowledgeAlert(ledger, alertId) ==
    [ i \in 1..Len(ledger) |->
        IF ledger[i].id = alertId THEN [ ledger[i] EXCEPT !.acknowledged = TRUE ]
        ELSE ledger[i] ]

\* The comparator (a, b) => b.timestamp.localeCompare(a.timestamp).
newestFirst(a, b) == localeCompare(b.timestamp, a.timestamp)

\* Array.prototype.sort with that comparator.  The sort is stable: elements
\* that compare equal keep their order.
sortAlerts(list) ==
    LET n == Len(list)
        before(j, i) == \/ newestFirst(list[j], list[i]) < 0
                        \/ (newestFirst(list[j], list[i]) = 0 /\ j < i)
        rank(i) == 1 + Cardinality({ j \in 1..n : before(j, i) })
    IN  [ k \in 1..n |-> list[CHOOSE i \in 1..n : rank(i) = k] ]

\* Variant: the filter left out.
getActiveAlerts_noFilter(ledger) == sortAlerts(ledger)

getActiveAlerts(ledger) ==
    sortAlerts(SelectSeq(ledger, LAMBDA a : ~a.acknowledged))

getAllAlerts(ledger) == sortAlerts(ledger)

----------------------------------------------------------------------------
(* Inputs *)

TableKeys == DOMAIN NEWS2_THRESHOLDS
ParameterKeys == TableKeys \cup {"painScore"}

\* Values given to calculateSubScore: integers for every parameter, and
\* hundredths of a degree for temperature.
ValuesOf(p) == IF p = "temperature" THEN TempMin..TempMax ELSE (0 - NegativeValues)..ValueMax

Optional(S) == {<<>>} \cup { <<x>> : x \in S }

\* Observations: for each field, absent or one value of every band.
RRValues == {8, 9, 20, 21, 25}
SpO2Values == {91, 92, 95, 96}
TempValues == {3500, 3505, 3600, 3800, 3900, 3910}
BPValues == {90, 100, 110, 111, 220}
HRValues == {40, 50, 90, 110, 130, 131}
AVPUValues == {"A", "C", "V", "P", "U", "X"}

VitalSigns ==
    [ rr : Optional(RRValues),
      spo2 : Optional(SpO2Values),
      supplementalO2 : Optional(BOOLEAN),
      temp : Optional(TempValues),
      bp_sys : Optional(BPValues),
      hr : Optional(HRValues),
      avpu : Optional(AVPUValues) ]

NoVital == [ rr |-> <<>>, spo2 |-> <<>>, supplementalO2 |-> <<>>, temp |-> <<>>,
             bp_sys |-> <<>>, hr |-> <<>>, avpu |-> <<>> ]

----------------------------------------------------------------------------
(* Specification of calculateSubScore: the arguments are drawn by its Init *)

ScoreIdle == parameter = "" /\ value = 0 /\ subScore = <<>>
RiskIdle == totalScore = 0 /\ hasRedScore = <<>> /\ clinicalRisk = <<>>
NewsIdle == vital = NoVital /\ result = <<>> /\ lookups = <<>>
TrendIdle == vitals = <<>> /\ newsScore = <<>>
NoOp == [op |-> "", arg |-> <<>>]
AlertIdle ==
    /\ alerts = <<>>
    /\ alertIdCounter = 0
    /\ clock = 0
    /\ lastOp = NoOp
    /\ returned = <<>>
    /\ issued = {}

InitScore ==
    /\ parameter \in ParameterKeys
    /\ value \in ValuesOf(parameter)
    /\ subScore = <<>>
    /\ RiskIdle
    /\ NewsIdle
    /\ TrendIdle
    /\ AlertIdle

CallSubScore ==
    /\ subScore = <<>>
    /\ subScore' = << calculateSubScore(parameter, value) >>
    /\ UNCHANGED <<parameter, value>>
    /\ UNCHANGED riskVars
    /\ UNCHANGED newsVars
    /\ UNCHANGED trendVars
    /\ UNCHANGED alertVars

NextScore == CallSubScore

SpecScore == InitScore /\ [][NextScore]_vars

(* Specification of getClinicalRisk *)

InitRisk ==
    /\ totalScore \in 0..MaxTotal
    /\ hasRedScore \in Optional(BOOLEAN)
    /\ clinicalRisk = <<>>
    /\ ScoreIdle
    /\ NewsIdle
    /\ TrendIdle
    /\ AlertIdle

CallClinicalRisk ==
    /\ clinicalRisk = <<>>
    /\ clinicalRisk' = << getClinicalRisk(totalScore, hasRedScore) >>
    /\ UNCHANGED <<totalScore, hasRedScore>>
    /\ UNCHANGED scoreVars
    /\ UNCHANGED newsVars
    /\ UNCHANGED trendVars
    /\ UNCHANGED alertVars

NextRisk == CallClinicalRisk

SpecRisk == InitRisk /\ [][NextRisk]_vars

(* Specification of calculateNEWS2 *)

InitNews ==
    /\ vital \in VitalSigns
    /\ result = <<>>
    /\ lookups = <<>>
    /\ ScoreIdle
    /\ RiskIdle
    /\ TrendIdle
    /\ AlertIdle

CallNEWS2 ==
    /\ result = <<>>
    /\ result' = << calculateNEWS2(vital) >>
    /\ lookups' = [ i \in 1..Len(subScoreCalls(vital)) |-> subScoreCalls(vital)[i].key ]
    /\ UNCHANGED vital
    /\ UNCHANGED scoreVars
    /\ UNCHANGED riskVars
    /\ UNCHANGED trendVars
    /\ UNCHANGED alertVars

NextNews == CallNEWS2

SpecNews == InitNews /\ [][NextNews]_vars

(* Specification of useNewsScore *)

\* Observations with totals 0, 1, 2 and 3, two of them with the same total.
TrendVitals == { [NoVital EXCEPT !.rr = <<x>>] : x \in RRValues }

RECURSIVE SeqsUpTo(_, _)
SeqsUpTo(S, n) ==
    IF n = 0 THEN { <<>> }
    ELSE SeqsUpTo(S, n - 1)
         \cup { Append(q, x) : q \in { r \in SeqsUpTo(S, n - 1) : Len(r) = n - 1 }, x \in S }

InitTrend ==
    /\ vitals \in SeqsUpTo(TrendVitals, MaxHistory)
    /\ newsScore = <<>>
    /\ ScoreIdle
    /\ RiskIdle
    /\ NewsIdle
    /\ AlertIdle

CallUseNewsScore ==
    /\ newsScore = <<>>
    /\ newsScore' = << useNewsScore(vitals) >>
    /\ UNCHANGED vitals
    /\ UNCHANGED scoreVars
    /\ UNCHANGED riskVars
    /\ UNCHANGED newsVars
    /\ UNCHANGED alertVars

NextTrend == CallUseNewsScore

SpecTrend == InitTrend /\ [][NextTrend]_vars

(* Specification of the alert engine: calls of its exported functions in *)
(* any order, with the clock advancing between calls                      *)

Patients == { "MRN1" }

\* Observations for the alert engine.  Under checkVitals they raise 0, 1,
\* 2, 2 and 2 alerts; their NEWS2 results are Low, Low-Medium, Medium with
\* a red score, Medium without one, and High.
AlertVitals ==
    { [NoVital EXCEPT !.hr = <<90>>],
      [NoVital EXCEPT !.hr = <<131>>],
      [NoVital EXCEPT !.hr = <<40>>, !.rr = <<21>>],
      [NoVital EXCEPT !.rr = <<21>>, !.bp_sys = <<100>>, !.spo2 = <<95>>],
      [NoVital EXCEPT !.hr = <<40>>, !.rr = <<8>>, !.spo2 = <<95>>] }

AlertScores == { calculateNEWS2(v) : v \in AlertVitals }

\* Ids given to acknowledgeAlert: those of the alerts the ledger can hold
\* and one more.
AlertIds == { alertIdOf(n) : n \in 1..(MaxAlerts + 1) }

NumbersOf(list) == { idNumber(list[i].id) : i \in 1..Len(list) }

InitAlerts ==
    /\ AlertIdle
    /\ ScoreIdle
    /\ RiskIdle
    /\ NewsIdle
    /\ TrendIdle

\* Variant: an alert is not raised again while the ledger holds an
\* unacknowledged alert of the same patient, type and message.
CheckVitals_dedup(mrn, v) ==
    LET fresh == SelectSeq(vitalAlertsFrom(1, v),
                     LAMBDA d : ~\E i \in 1..Len(alerts) :
                                   /\ ~alerts[i].acknowledged
                                   /\ alerts[i].patientMrn = mrn
                                   /\ alerts[i].type = d.type
                                   /\ alerts[i].message = d.message)
        call == pushAll(fresh, alertIdCounter, toISOString(clock), mrn)
    IN  /\ Len(alerts) + Len(call.newAlerts) <= MaxAlerts
        /\ alerts' = alerts \o call.newAlerts
        /\ alertIdCounter' = call.counter
        /\ returned' = call.newAlerts
        /\ lastOp' = [ op |-> "checkVitals", arg |-> [ patientMrn |-> mrn, vital |-> v ] ]
        /\ issued' = issued \cup NumbersOf(call.newAlerts)
        /\ UNCHANGED clock
        /\ UNCHANGED calculatorVars

CheckVitals(mrn, v) ==
    LET call == checkVitals(mrn, v, alertIdCounter, toISOString(clock))
    IN  /\ Len(alerts) + Len(call.newAlerts) <= MaxAlerts
        /\ alerts' = alerts \o call.newAlerts
        /\ alertIdCounter' = call.counter
        /\ returned' = call.newAlerts
        /\ lastOp' = [ op |-> "checkVitals", arg |-> [ patientMrn |-> mrn, vital |-> v ] ]
        /\ issued' = issued \cup NumbersOf(call.newAlerts)
        /\ UNCHANGED clock
        /\ UNCHANGED calculatorVars

CheckNEWSScore(score, mrn) ==
    LET call == checkNEWSScore(score, mrn, alertIdCounter, toISOString(clock))
    IN  /\ Len(alerts) + Len(call.newAlerts) <= MaxAlerts
        /\ alerts' = alerts \o call.newAlerts
        /\ alertIdCounter' = call.counter
        /\ returned' = call.newAlerts
        /\ lastOp' = [ op |-> "checkNEWSScore", arg |-> [ patientMrn |-> mrn, score |-> score ] ]
        /\ issued' = issued \cup NumbersOf(call.newAlerts)
        /\ UNCHANGED clock
        /\ UNCHANGED calculatorVars

AcknowledgeAlert(alertId) ==
    /\ alerts' = acknowledgeAlert(alerts, alertId)
    /\ returned' = <<>>
    /\ lastOp' = [ op |-> "acknowledgeAlert", arg |-> alertId ]
    /\ UNCHANGED <<alertIdCounter, clock, issued>>
    /\ UNCHANGED calculatorVars

GetActiveAlerts ==
    /\ returned' = getActiveAlerts(alerts)
    /\ lastOp' = [ op |-> "getActiveAlerts", arg |-> <<>> ]
    /\ UNCHANGED <<alerts, alertIdCounter, clock, issued>>
    /\ UNCHANGED calculatorVars

GetAllAlerts ==
    /\ returned' = getAllAlerts(alerts)
    /\ lastOp' = [ op |-> "getAllAlerts", arg |-> <<>> ]
    /\ UNCHANGED <<alerts, alertIdCounter, clock, issued>>
    /\ UNCHANGED calculatorVars

\* Variant: the counter not reset.
ClearAlerts_keepCounter ==
    /\ alerts' = <<>>
    /\ returned' = <<>>
    /\ lastOp' = [ op |-> "clearAlerts", arg |-> <<>> ]
    /\ UNCHANGED <<alertIdCounter, clock, issued>>
    /\ UNCHANGED calculatorVars

ClearAlerts ==
    /\ alerts' = <<>>
    /\ alertIdCounter' = 0
    /\ returned' = <<>>
    /\ lastOp' = [ op |-> "clearAlerts", arg |-> <<>> ]
    /\ UNCHANGED <<clock, issued>>
    /\ UNCHANGED calculatorVars

Tick ==
    /\ clock < MaxClock
    /\ clock' = clock + 1
    /\ UNCHANGED <<alerts, alertIdCounter, lastOp, returned, issued>>
    /\ UNCHANGED calculatorVars

NextAlerts ==
    \/ \E mrn \in Patients, v \in AlertVitals : CheckVitals(mrn, v)
    \/ \E score \in AlertScores, mrn \in Patients : CheckNEWSScore(score, mrn)
    \/ \E alertId \in AlertIds : AcknowledgeAlert(alertId)
    \/ GetActiveAlerts
    \/ GetAllAlerts
    \/ ClearAlerts
    \/ Tick

SpecAlerts == InitAlerts /\ [][NextAlerts]_vars

(* Specification of one checkVitals call on a fresh module: the observation *)
(* is drawn by its Init                                                     *)

\* Values on both sides of every cutoff of VITAL_ALERT_THRESHOLDS and of
\* the red bands of NEWS2_THRESHOLDS; 0 is a heart rate that is present.
HRCheckValues == {0, 40, 41, 50, 51, 109, 110, 129, 130, 131}
RRCheckValues == {8, 9, 11, 12, 20, 21, 24, 25}
BPCheckValues == {90, 91, 100, 101, 179, 180, 219, 220}
SpO2CheckValues == {91, 92, 94, 95}
TempCheckValues == {3500, 3505, 3550, 3551, 3849, 3850, 3909, 3910}

CheckedVitals ==
    { [NoVital EXCEPT !.hr = h, !.rr = r, !.bp_sys = b, !.spo2 = s, !.temp = t] :
        h \in Optional(HRCheckValues), r \in Optional(RRCheckValues),
        b \in Optional(BPCheckValues), s \in Optional(SpO2CheckValues),
        t \in Optional(TempCheckValues) }

InitVitals ==
    /\ vital \in CheckedVitals
    /\ result = <<>>
    /\ lookups = <<>>
    /\ ScoreIdle
    /\ RiskIdle
    /\ TrendIdle
    /\ AlertIdle

CallCheckVitals ==
    /\ lastOp = NoOp
    /\ \E mrn \in Patients :
         LET call == checkVitals(mrn, vital, alertIdCounter, toISOString(clock))
         IN  /\ alerts' = alerts \o call.newAlerts
             /\ alertIdCounter' = call.counter
             /\ returned' = call.newAlerts
             /\ lastOp' = [ op |-> "checkVitals", arg |-> [ patientMrn |-> mrn, vital |-> vital ] ]
             /\ issued' = issued \cup NumbersOf(call.newAlerts)
    /\ UNCHANGED clock
    /\ UNCHANGED scoreVars
    /\ UNCHANGED riskVars
    /\ UNCHANGED newsVars
    /\ UNCHANGED trendVars

NextVitals == CallCheckVitals

SpecVitals == InitVitals /\ [][NextVitals]_vars

(* Specification of calculateNEWS2 followed by one checkNEWSScore call on *)
(* its result, on a fresh module                                           *)

InitNewsAlerts ==
    /\ vital \in VitalSigns
    /\ result = <<>>
    /\ lookups = <<>>
    /\ ScoreIdle
    /\ RiskIdle
    /\ TrendIdle
    /\ AlertIdle

CallCheckNEWSScore ==
    /\ lastOp = NoOp
    /\ \E mrn \in Patients :
         LET score == calculateNEWS2(vital)
             call == checkNEWSScore(score, mrn, alertIdCounter, toISOString(clock))
         IN  /\ result' = << score >>
             /\ alerts' = alerts \o call.newAlerts
             /\ alertIdCounter' = call.counter
             /\ returned' = call.newAlerts
             /\ lastOp' = [ op |-> "checkNEWSScore", arg |-> [ patientMrn |-> mrn, score |-> score ] ]
             /\ issued' = issued \cup NumbersOf(call.newAlerts)
    /\ lookups' = [ i \in 1..Len(subScoreCalls(vital)) |-> subScoreCalls(vital)[i].key ]
    /\ UNCHANGED <<vital, clock>>
    /\ UNCHANGED scoreVars
    /\ UNCHANGED riskVars
    /\ UNCHANGED trendVars

NextNewsAlerts == CallCheckNEWSScore

SpecNewsAlerts == InitNewsAlerts /\ [][NextNewsAlerts]_vars

----------------------------------------------------------------------------
(* Properties *)

RiskRank(r) ==
    CASE r = "Low" -> 0 [] r = "Low-Medium" -> 1 [] r = "Medium" -> 2 [] r = "High" -> 3

\* The scores of the sub-scores of result r that carry the label.
ScoresOf(r, label) ==
    { r.subScores[i].score : i \in { j \in 1..Len(r.subScores) : r.subScores[j].parameter = label } }

\* The positions of the sub-scores of result r that carry the label.
EntriesOf(r, label) == { i \in 1..Len(r.subScores) : r.subScores[i].parameter = label }

\* The number of sub-scores of result r with score n.
CountScore(r, n) == Cardinality({ i \in 1..Len(r.subScores) : r.subScores[i].score = n })

HasThree(r) == \E i \in 1..Len(r.subScores) : r.subScores[i].score = 3

FieldLabel ==
    [ rr |-> "Respiratory Rate", spo2 |-> "SpO2", supplementalO2 |-> "Supplemental O2",
      temp |-> "Temperature", bp_sys |-> "Systolic BP", hr |-> "Heart Rate",
      avpu |-> "Consciousness" ]

C2_IntegerBands ==
    subScore # <<>> =>
        /\ parameter = "respiratoryRate" =>
             subScore[1] = (IF value <= 8 THEN 3 ELSE IF value <= 11 THEN 1
                            ELSE IF value <= 20 THEN 0 ELSE IF value <= 24 THEN 2 ELSE 3)
        /\ parameter = "systolicBP" =>
             subScore[1] = (IF value <= 90 THEN 3 ELSE IF value <= 100 THEN 2
                            ELSE IF value <= 110 THEN 1 ELSE IF value <= 219 THEN 0 ELSE 3)
        /\ parameter = "heartRate" =>
             subScore[1] = (IF value <= 40 THEN 3 ELSE IF value <= 50 THEN 1
                            ELSE IF value <= 90 THEN 0 ELSE IF value <= 110 THEN 1
                            ELSE IF value <= 130 THEN 2 ELSE 3)

C2_Witness ==
    parameter = "systolicBP" /\ value = 220 /\ subScore = <<3>>

\* C3: for every temperature on the 0.01 degree grid calculateSubScore
\* returns 3 up to 35.0, 1 above 35.0 up to 36.0, 0 above 36.0 up to 38.0,
\* 1 above 38.0 up to 39.0 and 2 above 39.0.
C3_TemperatureBands ==
    (subScore # <<>> /\ parameter = "temperature") =>
        subScore[1] = (IF value <= 3500 THEN 3 ELSE IF value <= 3600 THEN 1
                       ELSE IF value <= 3800 THEN 0 ELSE IF value <= 3900 THEN 1 ELSE 2)

\* C4: calculateNEWS2 scores SpO2 on Scale 1 whatever the supplementalO2
\* flag: observations that differ only in the flag get the same SpO2
\* sub-score, and no Scale 2 table is looked up.
C4_SpO2AlwaysScale1 ==
    result # <<>> =>
        /\ \A k \in 1..Len(lookups) : lookups[k] \notin {"spo2Scale2OnO2", "spo2Scale2OnAir"}
        /\ vital.spo2 # <<>> =>
             LET x == vital.spo2[1]
                 scale1 == IF x <= 91 THEN 3 ELSE IF x <= 93 THEN 2
                           ELSE IF x <= 95 THEN 1 ELSE 0
             IN  /\ ScoresOf(result[1], "SpO2") = {scale1}
                 /\ \A flag \in Optional(BOOLEAN) :
                      ScoresOf(calculateNEWS2([vital EXCEPT !.supplementalO2 = flag]), "SpO2")
                        = ScoresOf(result[1], "SpO2")

C4_Witness ==
    /\ result # <<>>
    /\ vital.spo2 = <<92>>
    /\ vital.supplementalO2 = <<TRUE>>
    /\ ScoresOf(result[1], "SpO2") = {2}

\* C5: calculateNEWS2 returns exactly one sub-score for each of the seven
\* scored fields present in the observation and none for a field that is
\* absent.
C5_PresentFieldsOnly ==
    result # <<>> =>
        \A f \in DOMAIN FieldLabel :
            Cardinality(EntriesOf(result[1], FieldLabel[f]))
                = (IF vital[f] # <<>> THEN 1 ELSE 0)

\* C6: the totalScore of a result is the sum of the scores of the
\* sub-scores listed in it, for every subset of present fields.
C6_TotalIsSum ==
    result # <<>> =>
        /\ \A i \in 1..Len(result[1].subScores) : result[1].subScores[i].score \in 0..3
        /\ result[1].totalScore
             = CountScore(result[1], 1) + 2 * CountScore(result[1], 2)
                 + 3 * CountScore(result[1], 3)

C6_Witness ==
    /\ result # <<>>
    /\ Len(result[1].subScores) = 7
    /\ result[1].subScores[1].score = 3
    /\ result[1].totalScore = 6

C8_EscalationBijection ==
    result # <<>> =>
        LET r == result[1]
        IN  /\ r.clinicalRisk \in {"Low", "Low-Medium", "Medium", "High"}
            /\ r.escalationLevel = RiskRank(r.clinicalRisk)
            /\ r.escalationLevel = 3 <=> r.totalScore >= 7
            /\ r.escalationLevel = 0 <=> (r.totalScore < 5 /\ ~HasThree(r))

C8_Witness ==
    /\ result # <<>>
    /\ result[1].clinicalRisk = "Medium"
    /\ result[1].escalationLevel = 2

C10_Consciousness ==
    (result # <<>> /\ vital.avpu # <<>> /\ vital.avpu[1] \in {"A", "C", "V", "P", "U"}) =>
        LET r == result[1]
            entries == EntriesOf(r, "Consciousness")
        IN  /\ Cardinality(entries) = 1
            /\ \A i \in entries :
                 /\ r.subScores[i].score = (IF vital.avpu[1] = "A" THEN 0 ELSE 3)
                 /\ r.subScores[i].value = vital.avpu[1]

C10_Witness ==
    /\ result # <<>>
    /\ vital.avpu = <<"U">>
    /\ ScoresOf(result[1], "Consciousness") = {3}

\* C11: for observations that differ only in supplementalO2, the
\* Supplemental O2 sub-score has value Yes and score 2 with the flag true,
\* value No and score 0 with the flag false, and the totals differ by 2.
C11_SupplementalO2 ==
    result # <<>> =>
        LET on == calculateNEWS2([vital EXCEPT !.supplementalO2 = <<TRUE>>])
            off == calculateNEWS2([vital EXCEPT !.supplementalO2 = <<FALSE>>])
            own == EntriesOf(result[1], "Supplemental O2")
        IN  /\ vital.supplementalO2 = <<TRUE>> =>
                 /\ result[1] = on
                 /\ Cardinality(own) = 1
                 /\ \A i \in own : /\ result[1].subScores[i].value = "Yes"
                                   /\ result[1].subScores[i].score = 2
            /\ vital.supplementalO2 = <<FALSE>> =>
                 /\ result[1] = off
                 /\ Cardinality(own) = 1
                 /\ \A i \in own : /\ result[1].subScores[i].value = "No"
                                   /\ result[1].subScores[i].score = 0
            /\ ScoresOf(on, "Supplemental O2") = {2}
            /\ ScoresOf(off, "Supplemental O2") = {0}
            /\ on.totalScore = off.totalScore + 2

C11_Witness ==
    /\ result # <<>>
    /\ vital.supplementalO2 = <<TRUE>>
    /\ Len(result[1].subScores) = 7
    /\ ScoresOf(result[1], "Supplemental O2") = {2}
    /\ result[1].totalScore = 2

C13_TrendSign ==
    newsScore # <<>> =>
        LET t == newsScore[1].trend
        IN  /\ t \in {"worsening", "improving", "stable"}
            /\ Len(vitals) < 2 => t = "stable"
            /\ Len(vitals) >= 2 =>
                 LET newest == calculateNEWS2(vitals[1]).totalScore
                     second == calculateNEWS2(vitals[2]).totalScore
                 IN  /\ t = "worsening" <=> newest > second
                     /\ t = "improving" <=> newest < second
                     /\ t = "stable" <=> newest = second
                     /\ t = useNewsScore(SubSeq(vitals, 1, 2)).trend

C13_Witness ==
    /\ newsScore # <<>>
    /\ Len(vitals) = 3
    /\ newsScore[1].trend = "worsening"
    /\ newsScore[1].scoreHistory[1].totalScore = 3
    /\ newsScore[1].scoreHistory[2].totalScore = 1
    /\ newsScore[1].scoreHistory[3].totalScore = 3

----------------------------------------------------------------------------
(* Properties of the alert engine *)

Range(list) == { list[i] : i \in 1..Len(list) }

Unacknowledged(ledger) == { a \in Range(ledger) : ~a.acknowledged }

IdsIn(ledger) == { ledger[i].id : i \in 1..Len(ledger) }

\* The positions in alerts' of the alerts that the step appended.
Appended == { i \in 1..Len(alerts') : i > Len(alerts) }

\* The position in the ledger of the alert with the id of a.
PositionOf(a) == CHOOSE i \in 1..Len(alerts) : alerts[i].id = a.id

FirstId == [ prefix |-> "ALT-", digits |-> <<0, 0, 0, 1>> ]

\* C14: checkNEWSScore appends no score alert for a Low result, one info
\* alert for Low-Medium, one warning alert for Medium and one critical
\* alert for High.
C14_RiskToSeverity ==
    lastOp.op = "checkNEWSScore" =>
        LET risk == lastOp.arg.score.clinicalRisk
            scoreAlerts == { i \in 1..Len(returned) : returned[i].message.text = "NEWS2 Score" }
            expected == CASE risk = "Low" -> {}
                          [] risk = "Low-Medium" -> {"info"}
                          [] risk = "Medium" -> {"warning"}
                          [] risk = "High" -> {"critical"}
        IN  /\ Cardinality(scoreAlerts) = Cardinality(expected)
            /\ { returned[i].severity : i \in scoreAlerts } = expected
            /\ Len(alerts) >= Len(returned)
            /\ SubSeq(alerts, Len(alerts) - Len(returned) + 1, Len(alerts)) = returned

C14_Witness ==
    /\ lastOp.op = "checkNEWSScore"
    /\ lastOp.arg.score.clinicalRisk = "Medium"
    /\ Len(returned) = 1
    /\ returned[1].severity = "warning"
    /\ alerts = returned

\* C15: every newly created alert has an id whose number is greater than
\* the number of every alert created before it, along any sequence of
\* checkVitals, checkNEWSScore, acknowledgeAlert and clearAlerts calls.
C15_IdsIncrease ==
    [][ \A i \in Appended :
          /\ \A n \in issued : idNumber(alerts'[i].id) > n
          /\ \A j \in Appended : j < i => idNumber(alerts'[j].id) < idNumber(alerts'[i].id)
      ]_vars

C17_AcknowledgeOnce ==
    [][ /\ \A i \in Appended : ~alerts'[i].acknowledged
        /\ lastOp'.op = "acknowledgeAlert" =>
             /\ Len(alerts') = Len(alerts)
             /\ \A i \in 1..Len(alerts) :
                  alerts[i].id = lastOp'.arg => alerts'[i].acknowledged
        /\ \A i \in 1..Len(alerts) :
             (i <= Len(alerts') /\ alerts[i].acknowledged) => alerts'[i].acknowledged
        /\ (lastOp.op = "acknowledgeAlert" /\ lastOp' = lastOp) => alerts' = alerts
      ]_vars

C17_Witness ==
    /\ lastOp.op = "acknowledgeAlert"
    /\ Len(alerts) = 2
    /\ alerts[1].id = lastOp.arg
    /\ alerts[1].acknowledged
    /\ ~alerts[2].acknowledged

\* C18: acknowledgeAlert with an id that no alert of the ledger has leaves
\* the alerts, their order and the id counter unchanged.
C18_AcknowledgeUnknown ==
    [][ (lastOp'.op = "acknowledgeAlert" /\ lastOp'.arg \notin IdsIn(alerts)) =>
            /\ alerts' = alerts
            /\ alertIdCounter' = alertIdCounter
      ]_vars

C18_Witness ==
    /\ lastOp.op = "acknowledgeAlert"
    /\ Len(alerts) = 2
    /\ lastOp.arg \notin IdsIn(alerts)
    /\ Unacknowledged(alerts) # {}
    /\ alertIdCounter = 2

\* C19: getActiveAlerts returns exactly the alerts whose flag is false and
\* getAllAlerts exactly the alerts of the ledger, each once; an alert
\* leaves the active ones only by acknowledgeAlert of its id or by
\* clearAlerts.
C19_ActiveAndAll ==
    [][ /\ lastOp'.op = "getActiveAlerts" =>
             /\ Range(returned') = Unacknowledged(alerts')
             /\ Len(returned') = Cardinality(Unacknowledged(alerts'))
        /\ lastOp'.op = "getAllAlerts" =>
             /\ Range(returned') = Range(alerts')
             /\ Len(returned') = Len(alerts')
             /\ Len(returned') = Cardinality(Range(returned'))
        /\ \A a \in Unacknowledged(alerts) :
             a \notin Unacknowledged(alerts') =>
                 \/ lastOp'.op = "clearAlerts"
                 \/ (lastOp'.op = "acknowledgeAlert" /\ lastOp'.arg = a.id)
      ]_vars

C19_Witness ==
    /\ lastOp.op = "getActiveAlerts"
    /\ Len(alerts) = 2
    /\ Len(returned) = 1
    /\ alerts[1].acknowledged
    /\ returned[1] = alerts[2]

\* C20: in the list returned by getActiveAlerts or getAllAlerts an alert
\* created later, by a later call or later in the same call, never comes
\* after one created earlier.
C20_NewestFirst ==
    lastOp.op \in {"getActiveAlerts", "getAllAlerts"} =>
        \A p, q \in 1..Len(returned) :
            p < q => PositionOf(returned[p]) > PositionOf(returned[q])

----------------------------------------------------------------------------
(* Properties of the threshold tables *)

\* The positions of the bands of the table of p whose inclusive range
\* holds v.
BandsHolding(p, v) ==
    { i \in 1..Len(NEWS2_THRESHOLDS[p]) :
        v >= NEWS2_THRESHOLDS[p][i].min /\ v <= NEWS2_THRESHOLDS[p][i].max }

\* The value lies between the min of the first band and the max of the
\* last band of the table of p.
InSpan(p, v) ==
    /\ v >= NEWS2_THRESHOLDS[p][1].min
    /\ v <= NEWS2_THRESHOLDS[p][Len(NEWS2_THRESHOLDS[p])].max

\* C21: in every table of NEWS2_THRESHOLDS each value between the first
\* min and the last max belongs to exactly one band: no value falls
\* between the max of one band and the min of the next, and no value lies
\* in two bands.
C21_TablesPartition ==
    (subScore # <<>> /\ parameter \in TableKeys /\ InSpan(parameter, value)) =>
        Cardinality(BandsHolding(parameter, value)) = 1

----------------------------------------------------------------------------
(* Properties of checkVitals and checkNEWSScore *)

Monitored == {"hr", "rr", "bp_sys", "spo2", "temp"}

\* The positions in list of the vital alerts raised for the label.
AlertsFor(list, label) ==
    { i \in 1..Len(list) :
        list[i].type = "vital_out_of_range" /\ list[i].message.label = label }

SeveritiesFor(list, label) == { list[i].severity : i \in AlertsFor(list, label) }

\* C22: one checkVitals call raises at most one alert for each of hr, rr,
\* bp_sys, spo2 and temp, never a critical and a warning alert for the same
\* parameter, and so appends at most five alerts, all of them vital alerts
\* of these parameters.
C22_OneAlertPerParameter ==
    lastOp.op = "checkVitals" =>
        /\ \A k \in Monitored :
             /\ Cardinality(AlertsFor(returned, FieldLabel[k])) <= 1
             /\ SeveritiesFor(returned, FieldLabel[k]) # {"critical", "warning"}
        /\ \A i \in 1..Len(returned) :
             \E k \in Monitored : i \in AlertsFor(returned, FieldLabel[k])
        /\ Len(returned) <= 5
        /\ alerts = returned

C22_Witness ==
    /\ lastOp.op = "checkVitals"
    /\ vital.hr = <<40>>
    /\ Len(returned) = 5
    /\ returned[1].severity = "critical"
    /\ returned[1].message.label = "Heart Rate"
    /\ returned[2].severity = "warning"
    /\ alerts = returned

\* C23: checkVitals raises for each present field of hr, rr, bp_sys, spo2
\* and temp a critical alert iff the value is at or beyond a critical
\* cutoff, otherwise a warning alert iff it is at or beyond a warning
\* cutoff, otherwise nothing (heart rate: critical at 40 or less and at 130
\* or more, warning at 41-50 and 110-129, nothing at 51-109); an absent
\* field raises nothing.
C23_Classification ==
    lastOp.op = "checkVitals" =>
        LET v == lastOp.arg.vital
            expected(x, wl, wh, cl, ch) ==
                IF x <= cl \/ x >= ch THEN {"critical"}
                ELSE IF x <= wl \/ x >= wh THEN {"warning"}
                ELSE {}
            raised(k) == SeveritiesFor(returned, FieldLabel[k])
        IN  /\ v.hr # <<>> =>
                  /\ raised("hr") = expected(v.hr[1], 50, 110, 40, 130)
                  /\ (v.hr[1] <= 40 \/ v.hr[1] >= 130) => raised("hr") = {"critical"}
                  /\ (v.hr[1] \in 41..50 \/ v.hr[1] \in 110..129) => raised("hr") = {"warning"}
                  /\ v.hr[1] \in 51..109 => raised("hr") = {}
            /\ v.rr # <<>> => raised("rr") = expected(v.rr[1], 11, 21, 8, 25)
            /\ v.bp_sys # <<>> => raised("bp_sys") = expected(v.bp_sys[1], 100, 180, 90, 220)
            /\ v.spo2 # <<>> => raised("spo2") = expected(v.spo2[1], 94, Infinity, 91, Infinity)
            /\ v.temp # <<>> => raised("temp") = expected(v.temp[1], 3550, 3850, 3500, 3910)
            /\ \A k \in Monitored :
                 /\ v[k] = <<>> => AlertsFor(returned, FieldLabel[k]) = {}
                 /\ \A i \in AlertsFor(returned, FieldLabel[k]) :
                      v[k] = << returned[i].message.value >>

C23_Witness ==
    /\ lastOp.op = "checkVitals"
    /\ vital.hr = <<129>>
    /\ vital.rr = <<>>
    /\ vital.bp_sys = <<>>
    /\ vital.spo2 = <<92>>
    /\ vital.temp = <<>>
    /\ Len(returned) = 2
    /\ returned[1].severity = "warning"
    /\ returned[1].message.label = "Heart Rate"
    /\ returned[2].severity = "warning"
    /\ returned[2].message.label = "SpO2"

\* The positions in list of the red-parameter alerts.
RedAlerts(list) == { i \in 1..Len(list) : list[i].message.text = "RED score in" }

\* C24: checkNEWSScore appends one red-parameter warning alert exactly
\* when some sub-score of the result is 3 and its risk is not High; for a
\* High result it appends the critical score alert and nothing else,
\* however many sub-scores are 3.
C24_RedParameterWarning ==
    lastOp.op = "checkNEWSScore" =>
        LET score == lastOp.arg.score
        IN  /\ Cardinality(RedAlerts(returned)) =
                  (IF HasThree(score) /\ score.clinicalRisk # "High" THEN 1 ELSE 0)
            /\ \A i \in RedAlerts(returned) :
                 /\ returned[i].severity = "warning"
                 /\ returned[i].type = "news_score_elevated"
                 /\ Len(returned[i].message.parameters) = CountScore(score, 3)
            /\ score.clinicalRisk = "High" =>
                 /\ Len(returned) = 1
                 /\ returned[1].severity = "critical"
                 /\ returned[1].message.text = "NEWS2 Score"
            /\ Len(alerts) >= Len(returned)
            /\ SubSeq(alerts, Len(alerts) - Len(returned) + 1, Len(alerts)) = returned

C24_Witness ==
    /\ lastOp.op = "checkNEWSScore"
    /\ lastOp.arg.score.clinicalRisk = "Medium"
    /\ CountScore(lastOp.arg.score, 3) = 1
    /\ Len(returned) = 2
    /\ returned[1].severity = "warning"
    /\ returned[1].message.text = "NEWS2 Score"
    /\ returned[2].severity = "warning"
    /\ returned[2].message.text = "RED score in"
    /\ alerts = returned

CheckOps == {"checkVitals", "checkNEWSScore"}

\* C25: every checkVitals or checkNEWSScore call leaves all the alerts it
\* returns in the ledger, after the alerts that were there, and has
\* generated one id for each; in every state between calls no two alerts of
\* the ledger have the same id and the counter is the number of alerts in
\* the ledger.
C25_AtomicAppend ==
    [][ /\ (lastOp'.op \in CheckOps /\ clock' = clock) =>
             /\ alerts' = alerts \o returned'
             /\ alertIdCounter' = alertIdCounter + Len(returned')
        /\ \A i, j \in 1..Len(alerts') : i # j => alerts'[i].id # alerts'[j].id
        /\ alertIdCounter' = Len(alerts')
      ]_vars

C25_Witness ==
    /\ lastOp.op = "checkNEWSScore"
    /\ Len(alerts) = 2
    /\ alerts[1].type = "vital_out_of_range"
    /\ returned = << alerts[2] >>
    /\ alerts[1].id # alerts[2].id
    /\ alertIdCounter = 2

\* The alert without its acknowledged flag.
Unflagged(a) == [ a EXCEPT !.acknowledged = FALSE ]

\* C26: a step that is not clearAlerts keeps every alert of the ledger at
\* its position with the same id, type, severity, message, timestamp and
\* patient; checkVitals and checkNEWSScore leave the alerts that were there
\* as they were and add theirs at the end; acknowledgeAlert(id) keeps the
\* length and changes no alert with another id; the getters change nothing.
C26_PersistUntilClear ==
    [][ /\ lastOp'.op # "clearAlerts" =>
             /\ Len(alerts') >= Len(alerts)
             /\ \A i \in 1..Len(alerts) : Unflagged(alerts'[i]) = Unflagged(alerts[i])
        /\ lastOp'.op \in CheckOps =>
             SubSeq(alerts', 1, Len(alerts)) = alerts
        /\ lastOp'.op = "acknowledgeAlert" =>
             /\ Len(alerts') = Len(alerts)
             /\ \A i \in 1..Len(alerts) :
                  alerts[i].id # lastOp'.arg => alerts'[i] = alerts[i]
        /\ lastOp'.op \in {"getActiveAlerts", "getAllAlerts"} => alerts' = alerts
      ]_vars

C26_Witness ==
    /\ lastOp.op = "acknowledgeAlert"
    /\ Len(alerts) = 2
    /\ lastOp.arg = alerts[2].id
    /\ alerts[2].acknowledged
    /\ ~alerts[1].acknowledged
    /\ alerts[1].type = "vital_out_of_range"
    /\ alerts[2].type = "news_score_elevated"
    /\ clock = 1

\* The number of alerts the call recorded in op raises on an empty ledger.
RaisedAlone(op) ==
    IF op.op = "checkVitals"
    THEN Len(checkVitals(op.arg.patientMrn, op.arg.vital, 0, toISOString(0)).newAlerts)
    ELSE Len(checkNEWSScore(op.arg.score, op.arg.patientMrn, 0, toISOString(0)).newAlerts)

\* C27: a checkVitals or checkNEWSScore call appends as many alerts as it
\* does on an empty ledger, whatever the ledger holds; a call that repeats
\* the call before it appends as many alerts as that one did, with the same
\* type, severity, message and patient, and with ids that no alert of the
\* ledger has.
C27_NoDeduplication ==
    [][ (lastOp'.op \in CheckOps /\ clock' = clock) =>
            /\ Len(returned') = RaisedAlone(lastOp')
            /\ Len(alerts') = Len(alerts) + RaisedAlone(lastOp')
            /\ lastOp' = lastOp =>
                 /\ Len(returned') = Len(returned)
                 /\ \A i \in 1..Len(returned') :
                      /\ returned'[i].id \notin IdsIn(alerts)
                      /\ returned'[i].type = returned[i].type
                      /\ returned'[i].severity = returned[i].severity
                      /\ returned'[i].message = returned[i].message
                      /\ returned'[i].patientMrn = returned[i].patientMrn
      ]_vars

C27_Witness ==
    /\ lastOp.op = "checkVitals"
    /\ Len(alerts) = 2
    /\ returned = << alerts[2] >>
    /\ alerts[1].message = alerts[2].message
    /\ alerts[1].patientMrn = alerts[2].patientMrn
    /\ alerts[1].id # alerts[2].id
    /\ ~alerts[1].acknowledged
    /\ ~alerts[2].acknowledged

\* C28: for every observation and each of hr, rr, bp_sys, spo2 and temp,
\* when calculateNEWS2 gives the parameter a sub-score of 3, checkVitals on
\* the same observation raises a critical alert for that parameter.
C28_RedIsCritical ==
    lastOp.op = "checkVitals" =>
        \A k \in Monitored :
            3 \in ScoresOf(calculateNEWS2(lastOp.arg.vital), FieldLabel[k]) =>
                SeveritiesFor(returned, FieldLabel[k]) = {"critical"}

C28_Witness ==
    /\ lastOp.op = "checkVitals"
    /\ vital.spo2 = <<91>>
    /\ vital.hr = <<131>>
    /\ vital.temp = <<3500>>
    /\ 3 \in ScoresOf(calculateNEWS2(vital), "SpO2")
    /\ 3 \in ScoresOf(calculateNEWS2(vital), "Heart Rate")
    /\ 3 \in ScoresOf(calculateNEWS2(vital), "Temperature")
    /\ SeveritiesFor(returned, "SpO2") = {"critical"}
    /\ SeveritiesFor(returned, "Heart Rate") = {"critical"}
    /\ SeveritiesFor(returned, "Temperature") = {"critical"}

\* C29: for the result of calculateNEWS2 on any observation checkNEWSScore
\* appends no alert when the risk is Low, an info score alert and a
\* red-parameter warning when it is Low-Medium, one or two alerts when it
\* is Medium, one alert when it is High, and never more than two.
C29_AlertCounts ==
    (lastOp.op = "checkNEWSScore" /\ result # <<>>) =>
        LET risk == result[1].clinicalRisk
        IN  /\ lastOp.arg.score = result[1]
            /\ alerts = returned
            /\ Len(returned) <= 2
            /\ risk = "Low" => Len(returned) = 0
            /\ risk = "Low-Medium" =>
                 /\ Len(returned) = 2
                 /\ returned[1].severity = "info"
                 /\ returned[1].message.text = "NEWS2 Score"
                 /\ returned[2].severity = "warning"
                 /\ returned[2].message.text = "RED score in"
            /\ risk = "Medium" => Len(returned) \in {1, 2}
            /\ risk = "High" => Len(returned) = 1

C29_Witness ==
    /\ lastOp.op = "checkNEWSScore"
    /\ result # <<>>
    /\ result[1].clinicalRisk = "Low-Medium"
    /\ result[1].totalScore = 4
    /\ Len(returned) = 2
    /\ returned[1].severity = "info"
    /\ returned[2].message.text = "RED score in"
    /\ alerts = returned

----------------------------------------------------------------------------
(* Properties of calculateNEWS2 for a level outside the map *)

\* C30: when avpu is present and is none of A, C, V, P, U, calculateNEWS2
\* looks the consciousness table up with 0 and pushes one Consciousness
\* sub-score with score 0 and the level as given; total, red scores, risk
\* and escalation are those of the same observation with avpu = A.
C30_UnmappedLevel ==
    (result # <<>> /\ vital.avpu # <<>> /\ vital.avpu[1] \notin {"A", "C", "V", "P", "U"}) =>
        LET r == result[1]
            entries == EntriesOf(r, "Consciousness")
            alert == calculateNEWS2([vital EXCEPT !.avpu = <<"A">>])
        IN  /\ avpuNumeric(vital.avpu[1]) = 0
            /\ \E i \in 1..Len(lookups) : lookups[i] = "consciousness"
            /\ Cardinality(entries) = 1
            /\ \A i \in entries :
                 /\ r.subScores[i].score = 0
                 /\ r.subScores[i].value = vital.avpu[1]
            /\ Len(r.subScores) = Len(alert.subScores)
            /\ r.totalScore = alert.totalScore
            /\ HasThree(r) = HasThree(alert)
            /\ r.clinicalRisk = alert.clinicalRisk
            /\ r.escalationLevel = alert.escalationLevel

C30_Witness ==
    /\ result # <<>>
    /\ vital.avpu = <<"X">>
    /\ vital.rr = <<25>>
    /\ ScoresOf(result[1], "Consciousness") = {0}
    /\ ScoresOf(result[1], "Respiratory Rate") = {3}
    /\ lookups[Len(lookups)] = "consciousness"

====
